---- MODULE Spec2Model ----
(***************************************************************************)
(* A model of bodhi/services/releases.py: the release detail view          *)
(* (get_release_html), the filtered and paginated listing                  *)
(* (query_releases_json) and the create-or-edit operation (save_release).  *)
(*                                                                         *)
(* Three specifications share the module:                                  *)
(*   Spec        save_release driven by a sequence of requests, each in    *)
(*               its own unit of work that the caller commits or aborts;   *)
(*   SpecQuery   query_releases_json applied to bounded store contents;    *)
(*   SpecDetail  get_release_html applied to bounded update histories.     *)
(***************************************************************************)
EXTENDS Integers, Sequences, FiniteSets, TLC

VARIABLES
    \* ---- save_release ----
    store,      \* flushed rows of the releases table in the current transaction
    committed,  \* rows as of the last commit
    pending,    \* unit of work: in-memory Release objects changed or added, not flushed
    errors,     \* request.errors of the current request
    outcome,    \* how the last save_release call ended: "record", "none", "raised"
    ret,        \* the returned record ({} when nothing was returned)
    added,      \* number of db.add calls made by the last call
    flushed,    \* number of db.flush calls made by the last call
    pc,         \* "idle" between requests, "returned" after the handler ran
    pre,        \* history: session view when the last call started
    data,       \* history: request.validated of the last call
    after,      \* history: session view when the last call ended
    repeat,     \* history: the last call was an edit with the payload of the call before it
    stable,     \* history: if so, it ended in the session view the call before it ended in
    \* ---- query_releases_json ----
    qdb,        \* releases and builds tables
    qreq,       \* request.validated of the listing
    qres,       \* the returned dict
    \* ---- get_release_html ----
    ddb,        \* updates table
    dreq,       \* matchdict name
    dres        \* what the call produced

saveVars == <<store, committed, pending, errors, outcome, ret, added, flushed,
              pc, pre, data, after, repeat, stable>>
queryVars == <<qdb, qreq, qres>>
detailVars == <<ddb, dreq, dres>>
vars == <<saveVars, queryVars, detailVars>>

None == "None"

(***************************************************************************)
(* Small helpers                                                           *)
(***************************************************************************)
Range(s) == {s[i] : i \in DOMAIN s}

Max(a, b) == IF a >= b THEN a ELSE b

Min(a, b) == IF a <= b THEN a ELSE b

\* All sequences without repetition over the set S.
RECURSIVE Perms(_)
Perms(S) ==
    IF S = {} THEN {<<>>}
    ELSE UNION {{<<x>> \o p : p \in Perms(S \ {x})} : x \in S}

(***************************************************************************)
(* save_release                                                            *)
(***************************************************************************)

\* Bounds of the model.
MaxReleases == 2

NameVals == {"F38", "F39"}
\* "Bad" stands for a value the Release attribute cannot take (type mismatch).
Bad == "Bad"
StateVals == {"pending", "archived", Bad}
VersionVals == {"39"}

FieldVals(k) ==
    CASE k = "name" -> NameVals
      [] k = "state" -> StateVals
      [] k = "version" -> VersionVals
      [] k = "edited" -> NameVals

ReleaseFields == {"name", "state", "version"}

\* A payload is the validated dict in its iteration order: a sequence of
\* <<key, value>> pairs with distinct keys.
ItemSeqs(K) ==
    UNION {{[i \in 1..Len(p) |-> <<p[i], f[p[i]]>>] :
               f \in [K -> UNION {FieldVals(k) : k \in K}]} : p \in Perms(K)}

WellTyped(d) == \A i \in DOMAIN d : d[i][2] \in FieldVals(d[i][1])

FieldRank(k) == CASE k = "name" -> 1 [] k = "state" -> 2 [] k = "version" -> 3

Ranked(d) == \A i, j \in DOMAIN d : i < j => FieldRank(d[i][1]) < FieldRank(d[j][1])

\* The payloads tried: every iteration order where an assignment is refused
\* (the order decides what was assigned before it), one order otherwise.
Payloads ==
    LET body == UNION {{d \in ItemSeqs(K) :
                          WellTyped(d) /\ (Ranked(d) \/ \E i \in DOMAIN d : d[i][2] = Bad)} :
                       K \in SUBSET ReleaseFields}
    IN  body \cup {<<<<"edited", e>>>> \o d : e \in NameVals, d \in body}

Keys(d) == {d[i][1] : i \in DOMAIN d}

\* dict.get(k, None)
DictGet(d, k) ==
    IF k \in Keys(d) THEN d[CHOOSE i \in DOMAIN d : d[i][1] = k][2] ELSE None

\* the dict left by data.pop(k, None)
DictPop(d, k) ==
    LET Keep(it) == it[1] # k IN SelectSeq(d, Keep)

\* Assigning the value v to attribute k of a Release is refused.
SetAttrFails(k, v) == v = Bad

\* Release(**data): a transient object with no surrogate id (0) and every
\* attribute that is not given left unset.
Release(d) ==
    [id |-> 0, name |-> DictGet(d, "name"), state |-> DictGet(d, "state"),
     version |-> DictGet(d, "version")]

ReleaseFails(d) == \E i \in DOMAIN d : SetAttrFails(d[i][1], d[i][2])

\* Variant of the assignment loop that replaces the record: attributes the
\* payload does not name are reset.
RECURSIVE SetAttrsCleared(_, _)
SetAttrsCleared(r, d) ==
    IF d = <<>> THEN [ok |-> TRUE, r |-> r]
    ELSE IF SetAttrFails(Head(d)[1], Head(d)[2]) THEN [ok |-> FALSE, r |-> r]
    ELSE SetAttrsCleared([k \in DOMAIN r |->
                            IF k = Head(d)[1] THEN Head(d)[2]
                            ELSE IF k \in Keys(Tail(d)) \cup {"id", "name"} THEN r[k]
                            ELSE None],
                         Tail(d))

\* for k, v in data.items(): setattr(r, k, v) -- stops at the first refused
\* assignment, the earlier ones already made.
RECURSIVE SetAttrs(_, _)
SetAttrs(r, d) ==
    IF d = <<>> THEN [ok |-> TRUE, r |-> r]
    ELSE IF SetAttrFails(Head(d)[1], Head(d)[2]) THEN [ok |-> FALSE, r |-> r]
    ELSE SetAttrs([r EXCEPT ![Head(d)[1]] = Head(d)[2]], Tail(d))

\* What queries of the session see: flushed rows overlaid with the in-memory
\* objects of the unit of work.
SessionView(st, pend) == {r \in st : \A p \in pend : p.id # r.id} \cup pend

\* The unique constraint on releases.name (NULLs never collide).
UniqueNames(rows) ==
    \A r1, r2 \in rows : (r1 # r2 /\ r1.name # None) => r1.name # r2.name

NewId(st) == 1 + Cardinality(st)

\* Variant of flush whose store accepts any row.
FlushUnchecked(st, pend) ==
    LET new == {IF p.id = 0 THEN [p EXCEPT !.id = NewId(st)] ELSE p : p \in pend}
    IN  [ok |-> TRUE, store |-> {r \in st : \A p \in new : p.id # r.id} \cup new]

\* db.flush(): writes the unit of work, giving new rows their surrogate id;
\* refused as a whole when two rows would share a name.
Flush(st, pend) ==
    LET new == {IF p.id = 0 THEN [p EXCEPT !.id = NewId(st)] ELSE p : p \in pend}
        merged == {r \in st : \A p \in new : p.id # r.id} \cup new
    IN  IF UniqueNames(merged) THEN [ok |-> TRUE, store |-> merged]
        ELSE [ok |-> FALSE, store |-> st]

SaveError == <<"body", "release", "Unable to create update">>

\* The except branch: error recorded, nothing returned, no add, no flush.
SaveFail(st, pend) ==
    [outcome |-> "none", ret |-> {}, store |-> st, pending |-> pend,
     errors |-> <<SaveError>>, added |-> 0, flushed |-> 0]

\* request.db.add(r); request.db.flush(); return r.  A refused flush raises
\* out of the handler and the transaction is rolled back to cm.
SaveStage(st, cm, r) ==
    LET fl == Flush(st, {r})
        rid == IF r.id = 0 THEN NewId(st) ELSE r.id
    IN  IF fl.ok
        THEN [outcome |-> "record", ret |-> {x \in fl.store : x.id = rid},
              store |-> fl.store, pending |-> {}, errors |-> <<>>,
              added |-> 1, flushed |-> 1]
        ELSE [outcome |-> "raised", ret |-> {}, store |-> cm, pending |-> {},
              errors |-> <<>>, added |-> 1, flushed |-> 1]

\* Variant of save_release that creates the record when the edit target is
\* missing.
save_release_upsert(st, cm, d) ==
    LET edited == DictGet(d, "edited")
        rest == DictPop(d, "edited")
        found == {r \in st : r.name = edited}
    IN  IF edited = None
        THEN IF "name" \notin Keys(rest) \/ ReleaseFails(rest)
             THEN SaveFail(st, {})
             ELSE SaveStage(st, cm, Release(rest))
        ELSE IF found = {}
             THEN IF ReleaseFails(rest) THEN SaveFail(st, {})
                  ELSE SaveStage(st, cm, Release(rest))
        ELSE IF Cardinality(found) # 1
             THEN SaveFail(st, {})
             ELSE LET r == CHOOSE x \in found : TRUE
                      a == SetAttrs(r, rest)
                  IN  IF a.ok THEN SaveStage(st, cm, a.r)
                      ELSE SaveFail(st, IF a.r = r THEN {} ELSE {a.r})

\* save_release(request) on a session whose flushed rows are st and whose
\* transaction began at cm; d is request.validated.
save_release(st, cm, d) ==
    LET edited == DictGet(d, "edited")
        rest == DictPop(d, "edited")
        found == {r \in st : r.name = edited}
    IN  IF edited = None
        THEN IF "name" \notin Keys(rest) \/ ReleaseFails(rest)
             THEN SaveFail(st, {})
             ELSE SaveStage(st, cm, Release(rest))
        ELSE IF Cardinality(found) # 1
             THEN SaveFail(st, {})
             ELSE LET r == CHOOSE x \in found : TRUE
                      a == SetAttrs(r, rest)
                  IN  IF a.ok THEN SaveStage(st, cm, a.r)
                      ELSE SaveFail(st, IF a.r = r THEN {} ELSE {a.r})

IsEdit(d) == DictGet(d, "edited") # None

SaveInit ==
    /\ store = {}
    /\ committed = {}
    /\ pending = {}
    /\ errors = <<>>
    /\ outcome = "none"
    /\ ret = {}
    /\ added = 0
    /\ flushed = 0
    /\ pc = "idle"
    /\ pre = {}
    /\ data = <<>>
    /\ after = {}
    /\ repeat = FALSE
    /\ stable = TRUE

\* One request: the handler runs on a fresh unit of work.
SaveRelease ==
    /\ pc = "idle"
    /\ \E d \in Payloads :
         /\ ~IsEdit(d) => Cardinality(store) < MaxReleases
         /\ \E res \in {save_release(store, committed, d)} :
              /\ store' = res.store
              /\ pending' = res.pending
              /\ errors' = errors \o res.errors
              /\ outcome' = res.outcome
              /\ ret' = res.ret
              /\ added' = res.added
              /\ flushed' = res.flushed
              /\ pre' = SessionView(store, pending)
              /\ data' = d
              /\ after' = SessionView(res.store, res.pending)
              /\ repeat' = (IsEdit(d) /\ d = data)
              /\ stable' = ((IsEdit(d) /\ d = data) =>
                               SessionView(res.store, res.pending) = after)
    /\ pc' = "returned"
    /\ UNCHANGED <<committed, queryVars, detailVars>>

\* The caller ends the request by committing: what is left in the unit of
\* work is flushed, and a refused flush rolls the transaction back.
Commit ==
    /\ pc = "returned"
    /\ outcome # "raised"
    /\ \E fl \in {Flush(store, pending)} :
         /\ store' = IF fl.ok THEN fl.store ELSE committed
         /\ committed' = IF fl.ok THEN fl.store ELSE committed
    /\ pending' = {}
    /\ errors' = <<>>
    /\ pc' = "idle"
    /\ UNCHANGED <<outcome, ret, added, flushed, pre, data, after, repeat, stable, queryVars, detailVars>>

\* The caller ends the request by aborting the transaction.
Abort ==
    /\ pc = "returned"
    /\ store' = committed
    /\ pending' = {}
    /\ errors' = <<>>
    /\ pc' = "idle"
    /\ UNCHANGED <<committed, outcome, ret, added, flushed, pre, data, after, repeat, stable,
                   queryVars, detailVars>>

IdleQuery == qdb = <<>> /\ qreq = <<>> /\ qres = <<>>

IdleDetail == ddb = <<>> /\ dreq = None /\ dres = <<>>

Init == SaveInit /\ IdleQuery /\ IdleDetail

Next == SaveRelease \/ Commit \/ Abort

Spec == Init /\ [][Next]_vars

(***************************************************************************)
(* Properties of save_release, checked under Spec                          *)
(***************************************************************************)

Returned == pc = "returned"

AttrNames == {"id", "name", "state", "version"}

\* C2: whenever save_release takes its failure path it returns no record,
\* records an error, performs no add and no flush, and leaves the pending unit
\* of work and the fields of every existing release as they were before the call.
C2_FailurePathLeavesNoWrites ==
    (Returned /\ outcome = "none") =>
        /\ ret = {}
        /\ errors # <<>>
        /\ added = 0
        /\ flushed = 0
        /\ pending = {}
        /\ after = pre

\* C3: save_release never propagates a fault: every call ends by returning
\* the saved record or by returning nothing with an error recorded.
C3_NeverPropagates ==
    Returned =>
        \/ outcome = "record" /\ ret # {}
        \/ outcome = "none" /\ ret = {} /\ errors # <<>>

\* C4: a successful edit changes only the targeted record and only the fields
\* present in the payload: each payload field other than `edited` holds the
\* payload value, every other field (id and name included) keeps its prior
\* value, no other release changes and the number of releases is unchanged.
C4_EditChangesOnlyPayloadFields ==
    (Returned /\ outcome = "record" /\ IsEdit(data)) =>
        \E old \in pre : \E new \in after :
            /\ old.name = DictGet(data, "edited")
            /\ ret = {new}
            /\ \A k \in AttrNames :
                   new[k] = IF k \in Keys(data) THEN DictGet(data, k) ELSE old[k]
            /\ after \ {new} = pre \ {old}
            /\ Cardinality(after) = Cardinality(pre)

\* An edit that set `state` and `version`, left `name` out, and changed the
\* record while another release sat beside it.
C4_Witness ==
    /\ Returned /\ outcome = "record" /\ IsEdit(data)
    /\ Keys(data) = {"edited", "state", "version"}
    /\ Cardinality(pre) = 2
    /\ after # pre

\* C5: applying the same edit payload twice in a row leaves the store as the
\* first application left it: same field values, no additional release.
C5_EditIdempotent ==
    (Returned /\ repeat /\ IsEdit(data)) => stable

\* The same renaming edit applied twice: the first application renamed the
\* record, the second found no target.
C5_Witness ==
    /\ Returned /\ repeat /\ IsEdit(data)
    /\ "name" \in Keys(data)
    /\ DictGet(data, "name") # DictGet(data, "edited")
    /\ outcome = "none"
    /\ \E r \in after : r.name = DictGet(data, "name")

MaxBuilds == 3
MaxPage == 3
MaxRowsPerPage == 2

\* An optional request field: <<>> when it is None, <<v>> when it holds v.
Absent == <<>>

Some(v) == <<v>>

\* Strings are sequences of characters where their content is inspected.
ReleaseTable ==
    <<[id |-> 1, name |-> <<"F", "8">>], [id |-> 2, name |-> <<"F", "9">>]>>

UpdateTable ==
    <<[title |-> "t1", alias |-> "a1"], [title |-> "t2", alias |-> "a2"]>>

PackageIds == {1, 2}

NamePatterns == {<<"F", "%">>, <<"_", "9">>, <<"F", "8">>}

\* A build row links a release to an update and a package.
BuildRows == [release : {1, 2}, update : DOMAIN UpdateTable, package : PackageIds]

\* An update belongs to one release: builds of one update share the release.
ConsistentBuilds(bs) ==
    \A i, j \in DOMAIN bs : bs[i].update = bs[j].update => bs[i].release = bs[j].release

BuildTables ==
    {bs \in UNION {[1..n -> BuildRows] : n \in 0..MaxBuilds} : ConsistentBuilds(bs)}

NonEmptySubsets(S) == SUBSET S \ {{}}

QueryRequests ==
    [name : {Absent} \cup {Some(p) : p \in NamePatterns},
     updates : {Absent} \cup {Some(U) : U \in NonEmptySubsets(DOMAIN UpdateTable)},
     packages : {Absent} \cup {Some(P) : P \in NonEmptySubsets(PackageIds)},
     page : 1..MaxPage,
     rows_per_page : 1..MaxRowsPerPage]

\* SQL LIKE: % matches any run of characters, _ any one character.
RECURSIVE Like(_, _)
Like(str, pat) ==
    IF pat = <<>> THEN str = <<>>
    ELSE IF Head(pat) = "%"
         THEN Like(str, Tail(pat)) \/ (str # <<>> /\ Like(Tail(str), pat))
    ELSE IF str = <<>> THEN FALSE
    ELSE IF Head(pat) = "_" \/ Head(pat) = Head(str)
         THEN Like(Tail(str), Tail(pat))
    ELSE FALSE

ReleaseById(db, id) == CHOOSE r \in Range(db.releases) : r.id = id

\* or_(Update.title == u.title ..., Update.alias == u.alias ...) on one update row
UpdateClause(u, refs) ==
    \/ \E x \in refs : UpdateTable[u].title = UpdateTable[x].title
    \/ \E x \in refs : UpdateTable[u].alias = UpdateTable[x].alias

\* or_(Package.id == p.id ...) on one package row
PackageClause(p, refs) == \E x \in refs : p = x

\* The rows of the composed query before offset and limit, one per joined
\* row, each carrying the Release entity it selects.  Release.builds is
\* joined once even when both filters ask for it, so the update and the
\* package conditions fall on the same build row.
QueryRows(db, d) ==
    LET NameOk(r) == d.name = Absent \/ Like(r.name, d.name[1])
        RelOk(r) == NameOk(r)
        BuildOk(b) ==
            /\ \E r \in Range(db.releases) : r.id = b.release /\ NameOk(r)
            /\ d.updates = Absent \/ UpdateClause(b.update, d.updates[1])
            /\ d.packages = Absent \/ PackageClause(b.package, d.packages[1])
        joined == SelectSeq(db.builds, BuildOk)
    IN  IF d.updates = Absent /\ d.packages = Absent
        THEN SelectSeq(db.releases, RelOk)
        ELSE [i \in 1..Len(joined) |-> ReleaseById(db, joined[i].release)]

\* Query.all() on a single entity: each instance once, at its first row.
RECURSIVE UniqueList(_)
UniqueList(rows) ==
    IF rows = <<>> THEN <<>>
    ELSE LET init == UniqueList(SubSeq(rows, 1, Len(rows) - 1))
             last == rows[Len(rows)]
         IN  IF last \in Range(init) THEN init ELSE Append(init, last)

\* int(math.ceil(a / float(b)))
CeilDiv(a, b) == (a + b - 1) \div b

\* query.offset(off).limit(lim)
OffsetLimit(rows, off, lim) == SubSeq(rows, off + 1, Min(off + lim, Len(rows)))

\* query_releases_json(request) on the tables db with request.validated = d.
\* A zero rows_per_page raises ZeroDivisionError.
query_releases_json(db, d) ==
    LET rows == QueryRows(db, d)
        total == Len(rows)
    IN  IF d.rows_per_page = 0
        THEN [raised |-> TRUE, releases |-> <<>>, page |-> d.page, pages |-> 0,
              rows_per_page |-> d.rows_per_page, total |-> total]
        ELSE [raised |-> FALSE,
              releases |-> UniqueList(OffsetLimit(rows, d.rows_per_page * (d.page - 1),
                                                  d.rows_per_page)),
              page |-> d.page,
              pages |-> CeilDiv(total, d.rows_per_page),
              rows_per_page |-> d.rows_per_page,
              total |-> total]

IdleSave ==
    /\ store = {} /\ committed = {} /\ pending = {} /\ errors = <<>>
    /\ outcome = "none" /\ ret = {} /\ added = 0 /\ flushed = 0 /\ pc = "idle"
    /\ pre = {} /\ data = <<>> /\ after = {} /\ repeat = FALSE /\ stable = TRUE

QueryInit ==
    /\ qdb \in [releases : {ReleaseTable}, builds : BuildTables]
    /\ qreq \in QueryRequests
    /\ qres = <<>>

QueryReleasesJson ==
    /\ qres = <<>>
    /\ qres' = query_releases_json(qdb, qreq)
    /\ UNCHANGED <<qdb, qreq, saveVars, detailVars>>

InitQuery == IdleSave /\ QueryInit /\ IdleDetail

NextQuery == QueryReleasesJson

SpecQuery == InitQuery /\ [][NextQuery]_vars

(***************************************************************************)
(* Properties of query_releases_json, checked under SpecQuery              *)
(***************************************************************************)

Answered == qres # <<>>

\* The same query for another page and page size, the store unchanged.
PageOf(p, n) == query_releases_json(qdb, [qreq EXCEPT !.page = p, !.rows_per_page = n])

RECURSIVE ConcatPages(_)
ConcatPages(p) ==
    IF p = 0 THEN <<>> ELSE ConcatPages(p - 1) \o PageOf(p, qreq.rows_per_page).releases

Occurrences(seq, x) == Cardinality({i \in DOMAIN seq : seq[i] = x})

\* The releases the composed query selects.
FilteredReleases == Range(QueryRows(qdb, qreq))

\* C7: the pages 1..pages concatenated hold every release of the filtered
\* result exactly once, every page reports the same total and
\* pages = ceil(total / rows_per_page), and a page beyond the last is empty
\* with the same total and pages.
C7_PagesPartitionResult ==
    Answered =>
        LET all == ConcatPages(qres.pages) IN
        /\ \A r \in FilteredReleases : Occurrences(all, r) = 1
        /\ Range(all) = FilteredReleases
        /\ \A p \in 1..(qres.pages + 1) :
              LET other == PageOf(p, qreq.rows_per_page) IN
              /\ other.total = qres.total
              /\ other.pages = qres.pages
              /\ other.pages = CeilDiv(other.total, qreq.rows_per_page)
              /\ p > qres.pages => other.releases = <<>>

\* C8: total equals the number of releases the same query returns with
\* page = 1 and rows_per_page = total, also when a release matches through
\* several builds and when nothing matches (total = 0, where the page size
\* is taken as 1, the smallest the schema admits).
C8_TotalIsResultLength ==
    Answered =>
        LET whole == PageOf(1, Max(qres.total, 1)) IN
        /\ ~whole.raised
        /\ Len(whole.releases) = qres.total

\* The filters as the claim states them, release by release.
SatisfiesName(r) == qreq.name = Absent \/ Like(r.name, qreq.name[1])

SatisfiesUpdates(r) ==
    qreq.updates = Absent \/
    \E i \in DOMAIN qdb.builds :
        /\ qdb.builds[i].release = r.id
        /\ \E x \in qreq.updates[1] :
              \/ UpdateTable[qdb.builds[i].update].title = UpdateTable[x].title
              \/ UpdateTable[qdb.builds[i].update].alias = UpdateTable[x].alias

SatisfiesPackages(r) ==
    qreq.packages = Absent \/
    \E i \in DOMAIN qdb.builds :
        qdb.builds[i].release = r.id /\ qdb.builds[i].package \in qreq.packages[1]

\* C9: the query returns exactly the releases that satisfy every filter that
\* is present; with both `updates` and `packages` given a release matches iff
\* it satisfies both.
C9_ReturnsExactlyMatching ==
    Answered =>
        Range(PageOf(1, Max(qres.total, 1)).releases) =
            {r \in Range(qdb.releases) :
                SatisfiesName(r) /\ SatisfiesUpdates(r) /\ SatisfiesPackages(r)}

(***************************************************************************)
(* get_release_html                                                        *)
(***************************************************************************)

\* Bound of the model.
MaxUpdates == 3

\* updates.limit(25)
LatestLimit == 25

DetailReleases == {[id |-> 1, name |-> "F39"], [id |-> 2, name |-> "F40"]}

DetailNames == {"F39", "F40", "F41"}

\* date_submitted, to the fields the handler reads.
SubmitDates ==
    {[year |-> 2023, month |-> 10], [year |-> 2024, month |-> 2],
     [year |-> 2024, month |-> 10]}

UpdateTypes == {"bugfix", "security"}

UpdateRows == [release : {1, 2}, date : SubmitDates, type : UpdateTypes]

UpdateTables == UNION {[1..n -> UpdateRows] : n \in 0..MaxUpdates}

DigitChars == <<"0", "1", "2", "3", "4", "5", "6", "7", "8", "9">>

\* str(n) for n >= 0
RECURSIVE Str(_)
Str(n) ==
    IF n < 10 THEN <<DigitChars[n + 1]>>
    ELSE Str(n \div 10) \o <<DigitChars[(n % 10) + 1]>>

\* s.zfill(w)
RECURSIVE Zfill(_, _)
Zfill(str, w) == IF Len(str) >= w THEN str ELSE Zfill(<<"0">> \o str, w)

\* str(d.year) + '/' + str(d.month).zfill(2)
YearMonth(d) == Str(d.year) \o <<"/">> \o Zfill(Str(d.month), 2)

\* Code points of the characters of a month key: '/' sorts before the digits.
CharCode(c) ==
    IF c = "/" THEN 47 ELSE 47 + (CHOOSE i \in DOMAIN DigitChars : DigitChars[i] = c)

\* Python's order on strings.
RECURSIVE StrLess(_, _)
StrLess(a, b) ==
    IF b = <<>> THEN FALSE
    ELSE IF a = <<>> THEN TRUE
    ELSE IF Head(a) = Head(b) THEN StrLess(Tail(a), Tail(b))
    ELSE CharCode(Head(a)) < CharCode(Head(b))

\* sorted(S) for a set of strings
RECURSIVE Sorted(_)
Sorted(S) ==
    IF S = {} THEN <<>>
    ELSE LET least == CHOOSE x \in S : \A y \in S \ {x} : StrLess(x, y)
         IN  <<least>> \o Sorted(S \ {least})

DateBefore(a, b) == a.year < b.year \/ (a.year = b.year /\ a.month < b.month)

\* order_by(Update.date_submitted.desc()): newest first, rows of one date in
\* table order.
RECURSIVE OrderByDateDesc(_)
OrderByDateDesc(rows) ==
    IF rows = <<>> THEN <<>>
    ELSE LET init == OrderByDateDesc(SubSeq(rows, 1, Len(rows) - 1))
             last == rows[Len(rows)]
             ahead == {i \in DOMAIN init : ~DateBefore(init[i].date, last.date)}
             n == Cardinality(ahead)
         IN  SubSeq(init, 1, n) \o <<last>> \o SubSeq(init, n + 1, Len(init))

\* Release.get(name, db): the release of that name, or none.
ReleaseGet(name) == {r \in DetailReleases : r.name = name}

\* db.query(Update).filter(Update.release == release): no update row has a
\* null release, so none matches when the release is None.
UpdatesOf(db, release) ==
    LET Mine(u) == \E r \in release : u.release = r.id
    IN  OrderByDateDesc(SelectSeq(db.updates, Mine))

\* Variant of the loop body that counts the first update of a bucket as one.
TallySeedOne(acc, u) ==
    LET ym == YearMonth(u.date)
        t == u.type
        byType == IF t \in DOMAIN acc.date_commits THEN acc.date_commits[t] ELSE <<>>
        count == IF ym \in DOMAIN byType THEN byType[ym] + 1 ELSE 1
        months == [k \in DOMAIN byType \cup {ym} |-> IF k = ym THEN count ELSE byType[k]]
    IN  [date_commits |-> [x \in DOMAIN acc.date_commits \cup {t} |->
                              IF x = t THEN months ELSE acc.date_commits[x]],
         dates |-> acc.dates \cup {ym}]

\* One pass of the loop over updates_count.all(): the bucket is set to 0 when
\* first seen and incremented afterwards.
Tally(acc, u) ==
    LET ym == YearMonth(u.date)
        t == u.type
        byType == IF t \in DOMAIN acc.date_commits THEN acc.date_commits[t] ELSE <<>>
        count == IF ym \in DOMAIN byType THEN byType[ym] + 1 ELSE 0
        months == [k \in DOMAIN byType \cup {ym} |-> IF k = ym THEN count ELSE byType[k]]
    IN  [date_commits |-> [x \in DOMAIN acc.date_commits \cup {t} |->
                              IF x = t THEN months ELSE acc.date_commits[x]],
         dates |-> acc.dates \cup {ym}]

RECURSIVE TallyAll(_, _)
TallyAll(acc, rows) ==
    IF rows = <<>> THEN acc ELSE TallyAll(Tally(acc, Head(rows)), Tail(rows))

NoSuchRelease == <<"body", "name", "No such release">>

\* get_release_html(request) with matchdict name `name`.  updates[0] on an
\* empty query raises IndexError before anything is returned.
get_release_html(db, name) ==
    LET release == ReleaseGet(name)
        errs == IF release = {} THEN <<NoSuchRelease>> ELSE <<>>
        updates == UpdatesOf(db, release)
        hist == TallyAll([date_commits |-> <<>>, dates |-> {}], updates)
    IN  IF updates = <<>>
        THEN [raised |-> TRUE, errors |-> errs, release |-> release,
              latest_updates |-> <<>>, count |-> 0,
              date_commits |-> <<>>, dates |-> <<>>]
        ELSE [raised |-> FALSE, errors |-> errs, release |-> release,
              latest_updates |-> SubSeq(updates, 1, Min(LatestLimit, Len(updates))),
              count |-> Len(updates),
              date_commits |-> hist.date_commits,
              dates |-> Sorted(hist.dates)]

DetailInit ==
    /\ ddb \in [updates : UpdateTables]
    /\ dreq \in DetailNames
    /\ dres = <<>>

GetReleaseHtml ==
    /\ dres = <<>>
    /\ dres' = get_release_html(ddb, dreq)
    /\ UNCHANGED <<ddb, dreq, saveVars, queryVars>>

InitDetail == IdleSave /\ IdleQuery /\ DetailInit

NextDetail == GetReleaseHtml

SpecDetail == InitDetail /\ [][NextDetail]_vars

(***************************************************************************)
(* Properties of get_release_html, checked under SpecDetail                *)
(***************************************************************************)

Rendered == dres # <<>>

\* The updates of the requested release, in table order.
RequestedUpdates ==
    LET Mine(u) == \E r \in DetailReleases : r.name = dreq /\ u.release = r.id
    IN  SelectSeq(ddb.updates, Mine)

\* C1: the detail read path never raises: for a name with no release it
\* records the NotFound error, and for it and for a release with zero updates
\* it still returns latest_updates empty, count 0, date_commits empty and
\* dates empty.
C1_DetailNeverRaises ==
    Rendered =>
        /\ ~dres.raised
        /\ (\A r \in DetailReleases : r.name # dreq) => NoSuchRelease \in Range(dres.errors)
        /\ RequestedUpdates = <<>> =>
              /\ dres.latest_updates = <<>>
              /\ dres.count = 0
              /\ DOMAIN dres.date_commits = {}
              /\ dres.dates = <<>>

\* The value of a string of decimal digits.
RECURSIVE Decimal(_)
Decimal(str) ==
    IF str = <<>> THEN 0
    ELSE 10 * Decimal(SubSeq(str, 1, Len(str) - 1)) + (CharCode(str[Len(str)]) - 48)

\* "YYYY/MM" for the month of date d.
IsKeyOf(k, d) ==
    /\ Len(k) = 7
    /\ k[5] = "/"
    /\ \A i \in {1, 2, 3, 4, 6, 7} : k[i] \in Range(DigitChars)
    /\ Decimal(SubSeq(k, 1, 4)) = d.year
    /\ Decimal(SubSeq(k, 6, 7)) = d.month

\* Number of updates of the requested release of type t submitted in month d.
Submitted(t, d) ==
    Cardinality({i \in DOMAIN RequestedUpdates :
                    RequestedUpdates[i].type = t /\ RequestedUpdates[i].date = d})

====
